---------------------------- MODULE Spec2Model ----------------------------
(***************************************************************************)
(* Model of btc_dca_dashboard.py: the memoised price fetch                 *)
(* (load_btc_history under functools.lru_cache) and the script's DCA       *)
(* computation over the fetched price table.                               *)
(*                                                                         *)
(* Calendar dates are day numbers counted from a model epoch; the          *)
(* valuation date (datetime.date(2025, 7, 1) in the source) is day         *)
(* DaysBefore, so that DaysBefore days lie in front of it.  Instants are   *)
(* integers: UNIX seconds in the request, UNIX milliseconds in the         *)
(* provider's samples.  Prices are positive integers.  Quantities the      *)
(* script computes by float division are kept as exact fractions           *)
(* [n, d]; IEEE rounding is not modelled.                                  *)
(***************************************************************************)
EXTENDS Integers, Sequences, FiniteSets

VARIABLES
    start_date,          \* st.date_input value of this script run
    dca_usd,             \* st.slider value of this script run
    pc,                  \* position of the script: line76, line78, line83, line94, halted
    outcome,             \* how the script run ended: running, done, st.stop, or an exception name
    price_df,            \* the table load_btc_history returned to the script
    daily_df,            \* the ledger: <<>> (not built) or <<rows>>
    total_btc,           \* <<>> or <<fraction>>
    total_usd_invested,  \* <<>> or <<integer>>
    valuation_price,     \* <<>> or <<price>>
    current_value,       \* <<>> or <<fraction>>
    return_pct,          \* <<>> or <<fraction>>
    cache,               \* lru_cache contents, least recently used first
    fstate,              \* load_btc_history: idle, requesting, returned, raised
    cur,                 \* <<>> or <<key>> of the call in progress / last call
    request,             \* <<>> or <<[from, to]>>: the GET in flight or last issued
    requests_issued,     \* requests.get calls made by the current call
    sleeps,              \* delays slept by the current call
    statuses,            \* HTTP statuses received by the current call
    resp,                \* <<>> or <<reply>>: the response the current call received
    result,              \* <<>> or <<table>> returned by the last call
    error,               \* exception raised by the last call, "" if none
    hit,                 \* the last call was answered from the cache
    recency,             \* history: keys of successful calls, latest first, no repeats
    tracked,             \* history: the key whose repeats are followed
    tracked_ok,          \* history: tracked had a successful call
    others,              \* history: other keys requested since tracked's last success
    between              \* history: -1 when the current call's key had no earlier success,
                         \* else the number of distinct other keys requested since it

scriptVars == <<start_date, dca_usd, pc, outcome, price_df, daily_df, total_btc,
                total_usd_invested, valuation_price, current_value, return_pct>>
fetchVars == <<cache, fstate, cur, request, requests_issued, sleeps, statuses,
               resp, result, error, hit>>
historyVars == <<recency, tracked, tracked_ok, others, between>>
vars == <<scriptVars, fetchVars, historyVars>>

---------------------------------------------------------------------------
(* Bounds of the model *)

DaysBefore == 2
MaxPrice == 2
MaxSamples == 2

(* Program constants *)

maxsize == 4
SliderMin == 1
SliderDefault == 10
SliderMax == 1000

valuation_date == DaysBefore

SecPerDay == 24 * 60 * 60
MsPerDay == SecPerDay * 1000

Days == 0 .. (valuation_date + 1)
StartDates == 0 .. (valuation_date - 1)
DcaAmounts == {SliderMin, SliderDefault, SliderMax}
Prices == 1 .. MaxPrice

---------------------------------------------------------------------------
(* Generic helpers *)

Min(S) == CHOOSE x \in S : \A y \in S : x <= y

RECURSIVE SortedSeq(_)
SortedSeq(S) == IF S = {} THEN << >>
                ELSE <<Min(S)>> \o SortedSeq(S \ {Min(S)})

Range(s) == {s[i] : i \in 1 .. Len(s)}

RECURSIVE SeqsUpTo(_, _)
SeqsUpTo(S, n) == IF n = 0 THEN {<< >>}
                  ELSE LET shorter == SeqsUpTo(S, n - 1)
                       IN  shorter \cup {Append(s, x) : s \in shorter, x \in S}

RECURSIVE GCD(_, _)
GCD(a, b) == IF b = 0 THEN a ELSE GCD(b, a % b)

Abs(x) == IF x < 0 THEN -x ELSE x

(* exact fractions standing for the script's floats *)
Frac(n, d) == LET g == GCD(Abs(n), Abs(d)) IN [n |-> n \div g, d |-> d \div g]
FracAdd(a, b) == Frac(a.n * b.d + b.n * a.d, a.d * b.d)
FracMul(a, b) == Frac(a.n * b.n, a.d * b.d)
FracDiv(a, b) == Frac(a.n * b.d, a.d * b.n)
FracOfInt(i) == [n |-> i, d |-> 1]

RECURSIVE FracSum(_)
FracSum(s) == IF s = << >> THEN FracOfInt(0)
              ELSE FracAdd(Head(s), FracSum(Tail(s)))

RECURSIVE IntSum(_)
IntSum(s) == IF s = << >> THEN 0 ELSE Head(s) + IntSum(Tail(s))

---------------------------------------------------------------------------
(* The provider: samples and replies *)

Offsets == {0, MsPerDay - 1}
Instants == {d * MsPerDay + o : d \in Days, o \in Offsets}
Samples == [ms : Instants, price : Prices]
Payloads == SeqsUpTo(Samples, MaxSamples)

Statuses == {200, 404, 429, 500}

(* json = <<>>: a body without the "prices" field; <<p>>: {"prices": p} *)
RepliesOver(payloads) ==
    [status : Statuses, json : {<< >>} \cup {<<p>> : p \in payloads}]

RunReplies == RepliesOver(Payloads)

---------------------------------------------------------------------------
(* load_btc_history, the function body *)

utc_midnight_ts(d) == d * SecPerDay

url(start, end) == [from |-> utc_midnight_ts(start), to |-> utc_midnight_ts(end)]

(* variant: only client errors raise *)
raise_for_status_client_only(status) == 400 <= status /\ status < 500

(* requests.Response.raise_for_status: HTTPError for 4xx and 5xx *)
raise_for_status(status) == 400 <= status /\ status < 600

(* pd.to_datetime(ms, unit="ms").dt.date *)
to_date(ms) == ms \div MsPerDay

with_date(prices) == [i \in 1 .. Len(prices) |->
                        [ms |-> prices[i].ms, price |-> prices[i].price,
                         date |-> to_date(prices[i].ms)]]

(* first row of df, in row order, whose date is d *)
first_of(df, d) == df[Min({i \in 1 .. Len(df) : df[i].date = d})]

(* variant: each group keeps its last row's price *)
groupby_last(df) ==
    LET dates == SortedSeq({df[i].date : i \in 1 .. Len(df)})
        last_of(d) == df[CHOOSE i \in 1 .. Len(df) :
                            /\ df[i].date = d
                            /\ \A j \in 1 .. Len(df) : df[j].date = d => j <= i]
    IN  [j \in 1 .. Len(dates) |->
            [date |-> dates[j], price |-> last_of(dates[j]).price]]

(* df.groupby("date", as_index=False).first()[["date", "price"]]:
   groups in ascending key order, each with its first row's price *)
groupby_first(df) ==
    LET dates == SortedSeq({df[i].date : i \in 1 .. Len(df)})
    IN  [j \in 1 .. Len(dates) |->
            [date |-> dates[j], price |-> first_of(df, dates[j]).price]]

normalise(prices) == groupby_first(with_date(prices))

(* functools.lru_cache(maxsize=4): entries [key, value], oldest use first *)

CacheKeys(c) == {c[i].key : i \in 1 .. Len(c)}

cache_get(c, k) == (CHOOSE e \in Range(c) : e.key = k).value

without(c, k) == SelectSeq(c, LAMBDA e : e.key # k)

(* variant: a hit leaves the order alone (first-in, first-out eviction) *)
cache_touch_fifo(c, k) == c

(* a hit moves the entry to the most-recently-used end *)
cache_touch(c, k) == Append(without(c, k), [key |-> k, value |-> cache_get(c, k)])

(* variant: the cache is treated as full one entry early *)
cache_store_early(c, k, v) ==
    IF Len(c) >= maxsize - 1
    THEN Append(Tail(c), [key |-> k, value |-> v])
    ELSE Append(c, [key |-> k, value |-> v])

(* a miss stores the result; when full, the oldest entry is dropped first *)
cache_store(c, k, v) ==
    IF Len(c) >= maxsize
    THEN Append(Tail(c), [key |-> k, value |-> v])
    ELSE Append(c, [key |-> k, value |-> v])

(* history bookkeeping: k was just used successfully *)
used(r, k) == <<k>> \o SelectSeq(r, LAMBDA x : x # k)

(* load_btc_history(start, end) is called with k = <<start, end>> *)
Call(k) ==
    /\ fstate # "requesting"
    /\ cur' = <<k>>
    /\ sleeps' = << >>
    /\ statuses' = << >>
    /\ resp' = << >>
    /\ error' = ""
    /\ between' = IF k = tracked /\ tracked_ok THEN Cardinality(others) ELSE -1
    /\ tracked' = tracked
    /\ IF k \in CacheKeys(cache)
       THEN /\ cache' = cache_touch(cache, k)
            /\ result' = <<cache_get(cache, k)>>
            /\ fstate' = "returned"
            /\ hit' = TRUE
            /\ requests_issued' = 0
            /\ request' = << >>
            /\ recency' = used(recency, k)
            /\ tracked_ok' = (tracked_ok \/ k = tracked)
            /\ others' = IF k = tracked THEN {} ELSE others \cup {k}
       ELSE /\ cache' = cache
            /\ result' = << >>
            /\ fstate' = "requesting"
            /\ hit' = FALSE
            /\ requests_issued' = 1
            /\ request' = <<url(k[1], k[2])>>
            /\ recency' = recency
            /\ tracked_ok' = tracked_ok
            /\ others' = IF k = tracked THEN others ELSE others \cup {k}

(* the provider answers the GET in flight with reply r *)
ProviderResponds(r) ==
    /\ fstate = "requesting"
    /\ statuses' = Append(statuses, r.status)
    /\ resp' = <<r>>
    /\ IF raise_for_status(r.status)
       THEN /\ fstate' = "raised"
            /\ error' = "HTTPError"
            /\ UNCHANGED <<cache, result, recency, tracked_ok, others>>
       ELSE IF r.json = << >>
       THEN /\ fstate' = "raised"
            /\ error' = "KeyError"
            /\ UNCHANGED <<cache, result, recency, tracked_ok, others>>
       ELSE LET df == normalise(r.json[1])
                k == cur[1]
            IN  /\ fstate' = "returned"
                /\ error' = ""
                /\ result' = <<df>>
                /\ cache' = cache_store(cache, k, df)
                /\ recency' = used(recency, k)
                /\ tracked_ok' = (tracked_ok \/ k = tracked)
                /\ others' = IF k = tracked THEN {} ELSE others
    /\ UNCHANGED <<cur, request, requests_issued, sleeps, hit, between, tracked>>

(* requests.get raises: no answer within timeout=30, or no connection *)
RequestFails ==
    /\ fstate = "requesting"
    /\ fstate' = "raised"
    /\ error' = "RequestException"
    /\ UNCHANGED <<cache, result, recency, tracked, tracked_ok, others, statuses, resp,
                   cur, request, requests_issued, sleeps, hit, between>>

---------------------------------------------------------------------------
(* The script *)

(* variant: the range stops the day before end *)
buy_dates_exclusive(start, end) == [i \in 1 .. (end - start) |-> start + i - 1]

(* pd.date_range(start=start_date, end=valuation_date, freq="D") *)
buy_dates(start, end) == [i \in 1 .. (end - start + 1) |-> start + i - 1]

(* rows of df, in order, whose date is d *)
matches(df, d) == SelectSeq(df, LAMBDA r : r.date = d)

(* daily_df.merge(price_df, on="date", how="left"): per left row, one row per
   match, or one row without a price when nothing matches *)
RECURSIVE merge_left(_, _)
merge_left(dates, df) ==
    IF dates = << >> THEN << >>
    ELSE LET d == Head(dates)
             m == matches(df, d)
             rows == IF m = << >>
                     THEN <<[date |-> d, price |-> << >>]>>
                     ELSE [i \in 1 .. Len(m) |-> [date |-> d, price |-> <<m[i].price>>]]
         IN  rows \o merge_left(Tail(dates), df)

dropna(rows) == SelectSeq(rows, LAMBDA r : r.price # << >>)

(* lines 83-88 *)
ledger(start, end, df, usd) ==
    LET kept == dropna(merge_left(buy_dates(start, end), df))
    IN  [i \in 1 .. Len(kept) |->
            [date |-> kept[i].date, price |-> kept[i].price[1], usd_spent |-> usd,
             btc_bought |-> Frac(usd, kept[i].price[1])]]

(* variant: fall back on the latest row when the date has none *)
valuation_rows_latest(df, date) ==
    IF matches(df, date) # << >> \/ df = << >> THEN matches(df, date)
    ELSE <<df[Len(df)]>>

(* price_df.loc[price_df["date"] == valuation_date, "price"] *)
valuation_rows(df, date) == matches(df, date)

column(rows, f) == [i \in 1 .. Len(rows) |-> rows[i][f]]

ScriptIdle == UNCHANGED scriptVars

(* line 76: the script calls load_btc_history(start_date, valuation_date) *)
Fetch76 ==
    /\ pc = "line76"
    /\ fstate = "idle"
    /\ Call(<<start_date, valuation_date>>)
    /\ ScriptIdle

(* the call raised: the script run ends with that exception *)
Raise76 ==
    /\ pc = "line76"
    /\ fstate = "raised"
    /\ pc' = "halted"
    /\ outcome' = error
    /\ UNCHANGED <<start_date, dca_usd, price_df, daily_df, total_btc,
                   total_usd_invested, valuation_price, current_value, return_pct>>
    /\ UNCHANGED <<fetchVars, historyVars>>

(* lines 76-80: the call returned; stop on an empty table *)
Return76 ==
    /\ pc = "line76"
    /\ fstate = "returned"
    /\ price_df' = result[1]
    /\ IF result[1] = << >>
       THEN pc' = "halted" /\ outcome' = "st.stop"
       ELSE pc' = "line83" /\ outcome' = outcome
    /\ UNCHANGED <<start_date, dca_usd, daily_df, total_btc,
                   total_usd_invested, valuation_price, current_value, return_pct>>
    /\ UNCHANGED <<fetchVars, historyVars>>

(* lines 83-91 *)
DailyBuys ==
    /\ pc = "line83"
    /\ LET rows == ledger(start_date, valuation_date, price_df, dca_usd)
       IN  /\ daily_df' = <<rows>>
           /\ total_btc' = <<FracSum(column(rows, "btc_bought"))>>
           /\ total_usd_invested' = <<IntSum(column(rows, "usd_spent"))>>
    /\ pc' = "line94"
    /\ UNCHANGED <<start_date, dca_usd, outcome, price_df,
                   valuation_price, current_value, return_pct>>
    /\ UNCHANGED <<fetchVars, historyVars>>

(* lines 94-98: .iloc[0] of an empty selection raises IndexError *)
Valuation ==
    /\ pc = "line94"
    /\ pc' = "halted"
    /\ LET sel == valuation_rows(price_df, valuation_date)
       IN  IF sel = << >>
           THEN /\ outcome' = "IndexError"
                /\ UNCHANGED <<valuation_price, current_value, return_pct>>
           ELSE LET vp == sel[1].price
                    cv == FracMul(total_btc[1], FracOfInt(vp))
                IN  /\ valuation_price' = <<vp>>
                    /\ current_value' = <<cv>>
                    /\ IF total_usd_invested[1] = 0
                       THEN /\ return_pct' = << >>
                            /\ outcome' = "zero divisor"
                       ELSE /\ return_pct' =
                                 <<FracMul(FracAdd(FracDiv(cv, FracOfInt(total_usd_invested[1])),
                                                   FracOfInt(-1)),
                                           FracOfInt(100))>>
                            /\ outcome' = "done"
    /\ UNCHANGED <<start_date, dca_usd, price_df, daily_df, total_btc, total_usd_invested>>
    /\ UNCHANGED <<fetchVars, historyVars>>

---------------------------------------------------------------------------
(* Specifications *)

FetchInit ==
    /\ cache = << >>
    /\ fstate = "idle"
    /\ cur = << >>
    /\ request = << >>
    /\ requests_issued = 0
    /\ sleeps = << >>
    /\ statuses = << >>
    /\ resp = << >>
    /\ result = << >>
    /\ error = ""
    /\ hit = FALSE
    /\ recency = << >>
    /\ tracked_ok = FALSE
    /\ others = {}
    /\ between = -1

ScriptInit ==
    /\ start_date \in StartDates
    /\ dca_usd \in DcaAmounts
    /\ pc = "line76"
    /\ outcome = "running"
    /\ price_df = << >>
    /\ daily_df = << >>
    /\ total_btc = << >>
    /\ total_usd_invested = << >>
    /\ valuation_price = << >>
    /\ current_value = << >>
    /\ return_pct = << >>

(* one run of the script, top to bottom, against any provider reply *)
RunInit == ScriptInit /\ FetchInit /\ tracked = <<start_date, valuation_date>>

RunNext ==
    \/ Fetch76
    \/ fstate = "requesting" /\ \E r \in RunReplies : ProviderResponds(r) /\ ScriptIdle
    \/ RequestFails /\ ScriptIdle
    \/ Raise76
    \/ Return76
    \/ DailyBuys
    \/ Valuation

SpecRun == RunInit /\ [][RunNext]_vars

(* load_btc_history called again and again by a caller, any key, any reply *)
FetchKeys == {<<0, 0>>, <<0, 1>>, <<1, 1>>, <<0, 2>>, <<1, 2>>}

FetchReplies(k) ==
    RepliesOver({<<[ms |-> utc_midnight_ts(k[1]) * 1000, price |-> 1]>>})

CallerInit ==
    /\ start_date = 0
    /\ dca_usd = SliderDefault
    /\ pc = "caller"
    /\ outcome = "running"
    /\ price_df = << >>
    /\ daily_df = << >>
    /\ total_btc = << >>
    /\ total_usd_invested = << >>
    /\ valuation_price = << >>
    /\ current_value = << >>
    /\ return_pct = << >>

FetchSpecInit == CallerInit /\ FetchInit /\ tracked \in FetchKeys

FetchNext ==
    \/ \E k \in FetchKeys : Call(k) /\ ScriptIdle
    \/ fstate = "requesting" /\ \E r \in FetchReplies(cur[1]) : ProviderResponds(r) /\ ScriptIdle
    \/ RequestFails /\ ScriptIdle

SpecFetch == FetchSpecInit /\ [][FetchNext]_vars

---------------------------------------------------------------------------
(* Properties *)

Returned == fstate = "returned"
Fetched == fstate = "returned" /\ ~hit
Throttled(st) == st = 429
Unsuccessful(st) == ~(200 <= st /\ st < 300)

payload == resp[1].json[1]
series == result[1]
SeriesDates == {series[i].date : i \in 1 .. Len(series)}
UniqueDates(df) == \A i, j \in 1 .. Len(df) : df[i].date = df[j].date => i = j

Ascending(p) == \A i, j \in 1 .. Len(p) : i < j => p[i].ms <= p[j].ms
SamplesOn(p, d) == {i \in 1 .. Len(p) : to_date(p[i].ms) = d}
Earliest(p, d) == {i \in SamplesOn(p, d) : \A j \in SamplesOn(p, d) : p[i].ms <= p[j].ms}

(* C1: a fetch throttled (429) on every attempt fails only after exactly 5
   attempts, and a fetch throttled 4 times that then succeeds has slept
   2, 4, 8, 16 between its attempts. *)
C1_ThrottledFetchMakesFiveAttempts ==
    /\ (fstate = "raised" /\ statuses # << >>
            /\ \A i \in 1 .. Len(statuses) : Throttled(statuses[i]))
         => (Len(statuses) = 5 /\ requests_issued = 5)
    /\ (Fetched /\ Len(statuses) = 5
            /\ \A i \in 1 .. 4 : Throttled(statuses[i]))
         => sleeps = <<2, 4, 8, 16>>

(* C2: a call repeating the key of an earlier successful call, with fewer
   than 4 distinct other keys requested in between, is answered without a
   network request; the call that fetched issued exactly one. *)
C2_RepeatWithinCapacityIssuesNoRequest ==
    /\ (0 <= between /\ between < 4)
         => (Returned /\ hit /\ requests_issued = 0 /\ request = << >> /\ result # << >>)
    /\ Fetched => requests_issued = 1

C2_Witness == between = 3 /\ hit /\ Len(cache) = 4

(* C3: a price table without a row for valuation_date ends the run with
   MissingValuationPriceError and without current_value or return_pct.
   (Stated for the tables that reach the simulation; an empty table stops
   the run at line 80.) *)
C3_MissingValuationPriceIsDedicatedError ==
    (pc = "halted" /\ Returned /\ series # << >> /\ valuation_date \notin SeriesDates)
      => /\ outcome = "MissingValuationPriceError"
         /\ valuation_price = << >>
         /\ current_value = << >>
         /\ return_pct = << >>

(* C4: the table load_btc_history(start, end) returns has no row dated
   before start or after end. *)
C4_SeriesWithinRequestedRange ==
    Returned => \A d \in SeriesDates : cur[1][1] <= d /\ d <= cur[1][2]

(* C5 as stated: one row per date, priced by the date's earliest-timestamped
   sample, in whatever order the samples arrive. *)
C5_EarliestSampleInAnyOrder ==
    Fetched =>
        /\ UniqueDates(series)
        /\ \A i \in 1 .. Len(series) :
              \E n \in Earliest(payload, series[i].date) :
                  series[i].price = payload[n].price

(* C5 as amended: one row per date with a sample; when the samples arrive in
   ascending timestamp order the row carries the price of the date's
   earliest-timestamped sample. *)
C5_EarliestSampleWhenAscending ==
    Fetched =>
        /\ UniqueDates(series)
        /\ SeriesDates = {to_date(payload[n].ms) : n \in 1 .. Len(payload)}
        /\ Ascending(payload) =>
              \A i \in 1 .. Len(series) :
                  \E n \in Earliest(payload, series[i].date) :
                      series[i].price = payload[n].price

C5_Witness ==
    /\ Fetched
    /\ Len(payload) = 2
    /\ to_date(payload[1].ms) = to_date(payload[2].ms)
    /\ payload[1].ms < payload[2].ms
    /\ payload[1].price # payload[2].price
    /\ Len(series) = 1

(* C6: the ledger has exactly one row for each day of
   [start_date, valuation_date] that has a price in the table and none for
   any other day, and total_usd_invested is dca_usd times the number of
   ledger rows. *)
C6_LedgerOneRowPerPricedDay ==
    daily_df # << >> =>
        LET rows == daily_df[1]
            priced(d) == \E i \in 1 .. Len(price_df) : price_df[i].date = d
            rows_on(d) == {i \in 1 .. Len(rows) : rows[i].date = d}
        IN  /\ \A d \in start_date .. valuation_date :
                  Cardinality(rows_on(d)) = IF priced(d) THEN 1 ELSE 0
            /\ \A i \in 1 .. Len(rows) :
                  /\ rows[i].date \in start_date .. valuation_date
                  /\ \E n \in 1 .. Len(price_df) :
                        price_df[n].date = rows[i].date /\ price_df[n].price = rows[i].price
            /\ total_usd_invested = <<dca_usd * Len(rows)>>

C6_Witness ==
    /\ daily_df # << >>
    /\ Len(daily_df[1]) = 2
    /\ valuation_date - start_date + 1 = 3
    /\ total_usd_invested = <<2 * dca_usd>>

(* C7: an unsuccessful status other than 429 fails the call at once: one
   request issued, no sleep, nothing returned, nothing stored. *)
C7_OtherErrorStatusFailsAtOnce ==
    (resp # << >> /\ Unsuccessful(resp[1].status) /\ ~Throttled(resp[1].status))
      => /\ fstate = "raised"
         /\ requests_issued = 1
         /\ Len(statuses) = 1
         /\ sleeps = << >>
         /\ result = << >>
         /\ cur[1] \notin CacheKeys(cache)

C7_Witness == fstate = "raised" /\ statuses = <<500>> /\ resp[1].json # << >>

(* C8: the memo holds at most 4 entries with distinct keys, and they are the
   4 most recently used keys (stored or hit), oldest use first in line for
   eviction. *)
C8_MemoKeepsFourMostRecentlyUsed ==
    /\ Len(cache) <= 4
    /\ Cardinality(CacheKeys(cache)) = Len(cache)
    /\ Len(cache) = (IF Len(recency) < 4 THEN Len(recency) ELSE 4)
    /\ \A i \in 1 .. Len(cache) : cache[i].key = recency[Len(cache) + 1 - i]

C8_Witness ==
    /\ Fetched
    /\ Len(recency) = 5
    /\ Len(cache) = 4
    /\ recency[5] \notin CacheKeys(cache)

(* C9 bears on this: in a completed run the ledger holds the valuation day,
   bought at valuation_price, so valuation_price is never strictly above, nor
   strictly below, every purchase price. *)
ValuationPriceIsAPurchasePrice ==
    return_pct # << >> =>
        \E i \in 1 .. Len(daily_df[1]) : daily_df[1][i].price = valuation_price[1]

(* C10: whenever the valuation lookup has succeeded the ledger has a row for
   valuation_date, total_usd_invested >= dca_usd > 0, and the division has a
   non-zero divisor. *)
C10_DivisorNeverZero ==
    valuation_price # << >> =>
        /\ \E i \in 1 .. Len(daily_df[1]) : daily_df[1][i].date = valuation_date
        /\ total_usd_invested[1] >= dca_usd
        /\ dca_usd > 0
        /\ outcome = "done"
        /\ return_pct # << >>

C10_Witness ==
    /\ outcome = "done"
    /\ Len(daily_df[1]) = 1
    /\ total_usd_invested = <<dca_usd>>

===========================================================================
